---- MODULE Spec2Model ----
(***************************************************************************)
(* A model of the assert_matches_regex! macro (src/src/lib.rs).            *)
(*                                                                         *)
(* Text is a sequence of one-character strings.  One expansion of the      *)
(* macro is a little program: bind the haystack, compile the pattern,      *)
(* test for a match, and panic with a formatted payload on a mismatch.     *)
(* The regex engine is an external crate; it is modelled for the fragment  *)
(* of its syntax that the pattern alphabet below can spell: literals, the  *)
(* dot, the two text anchors and bracketed classes (negated, nested).      *)
(***************************************************************************)
EXTENDS Naturals, Sequences, FiniteSets

\* ------------------------------------------------------------------ bounds
MaxHayLen == 2
MaxPatLen == 3

HayChars == {"a", "\"", "\\"}
PatChars == {"a", ".", "^", "$", "[", "]"}
AllChars == HayChars \cup PatChars

TextsUpTo(chars, n) == UNION {[1..k -> chars] : k \in 0..n}

Haystacks == TextsUpTo(HayChars, MaxHayLen)
Patterns == TextsUpTo(PatChars, MaxPatLen)

\* ------------------------------------------------------- string literals
\* The backtick, which a TLA+ string cannot hold, is the one character
\* written by its name.
Grave == "GRAVE"
AssertionFailed == <<"a", "s", "s", "e", "r", "t", "i", "o", "n", " ", "f", "a", "i", "l", "e", "d", ":", " ", Grave>>
DoesNotMatch == <<Grave, " ", "d", "o", "e", "s", " ", "n", "o", "t", " ", "m", "a", "t", "c", "h", " ", Grave>>
Backtick == <<Grave>>
ColonSpace == <<":", " ">>
AValidRegex == <<"a", " ", "v", "a", "l", "i", "d", " ", "r", "e", "g", "e", "x">>
RegexParseError == <<"r", "e", "g", "e", "x", " ", "p", "a", "r", "s", "e", " ", "e", "r", "r", "o", "r", ":">>
UnclosedClass == <<"e", "r", "r", "o", "r", ":", " ", "u", "n", "c", "l", "o", "s", "e", "d", " ", "c", "h", "a", "r", "a", "c", "t", "e", "r", " ", "c", "l", "a", "s", "s">>
SyntaxOpen == <<"S", "y", "n", "t", "a", "x", "(">>
XXX == <<"X", "X", "X">>
ValueFmt == <<"v", "a", "l", "u", "e", "=", "{", "}">>

\* ------------------------------------------------------------ token trees
\* What follows $re in an invocation: nothing, a lone comma, or a comma
\* and the tokens of a format string with its arguments.
Comma == [k |-> "comma", v |-> <<>>]
Str(s) == [k |-> "str", v |-> s]
Expr(s) == [k |-> "expr", v |-> s]

Rests ==
    { <<>>,
      <<Comma>>,
      <<Comma, Str(<<>>)>>,
      <<Comma, Str(XXX)>>,
      <<Comma, Str(ValueFmt), Comma, Expr(XXX)>> }

\* Mutant of Arm: a lone trailing comma taken for the start of a message.
ArmCommaIsMessage(rest) == IF rest = <<>> THEN 1 ELSE 2

\* The arm of macro_rules! an invocation expands by: the first arm takes
\* '$haystack, $re' with an optional trailing comma, the second needs a
\* comma and at least one more token.
Arm(rest) == IF rest = <<>> \/ rest = <<Comma>> THEN 1 ELSE 2

\* The value the n-th evaluation of an expression yields.  An expression
\* may have side effects, so every further evaluation yields another text.
Eval(e, n) == e \o [k \in 1..(n - 1) |-> "a"]

Count(s, x) == Cardinality({i \in 1..Len(s) : s[i] = x})

\* ------------------------------------------------------- the regex engine
Item(t, s) == [t |-> t, s |-> s]

RECURSIVE ParseClass(_, _)
RECURSIVE ClassItems(_, _, _, _)

\* The items of a bracketed class from position j on; 'first' says that
\* no item was read yet, where a ']' is a literal.
ClassItems(p, j, set, first) ==
    IF j > Len(p) THEN [ok |-> FALSE, next |-> j, set |-> set]
    ELSE IF p[j] = "]" /\ ~first THEN [ok |-> TRUE, next |-> j + 1, set |-> set]
    ELSE IF p[j] = "[" THEN
        LET r == ParseClass(p, j)
        IN  IF r.ok THEN ClassItems(p, r.next, set \cup r.set, FALSE) ELSE r
    ELSE ClassItems(p, j + 1, set \cup {p[j]}, FALSE)

\* A bracketed class opening at p[i] = "[": an optional '^' negates it.
ParseClass(p, i) ==
    LET neg == i + 1 <= Len(p) /\ p[i + 1] = "^"
        r == ClassItems(p, IF neg THEN i + 2 ELSE i + 1, {}, TRUE)
    IN  IF r.ok /\ neg THEN [r EXCEPT !.set = AllChars \ r.set] ELSE r

RECURSIVE Parse(_, _, _)
Parse(p, i, prog) ==
    IF i > Len(p) THEN [ok |-> TRUE, prog |-> prog]
    ELSE IF p[i] = "[" THEN
        LET r == ParseClass(p, i)
        IN  IF r.ok THEN Parse(p, r.next, Append(prog, Item("set", r.set)))
            ELSE [ok |-> FALSE, prog |-> <<>>]
    ELSE IF p[i] = "^" THEN Parse(p, i + 1, Append(prog, Item("start", {})))
    ELSE IF p[i] = "$" THEN Parse(p, i + 1, Append(prog, Item("end", {})))
    ELSE IF p[i] = "." THEN Parse(p, i + 1, Append(prog, Item("set", AllChars)))
    ELSE Parse(p, i + 1, Append(prog, Item("set", {p[i]})))

\* Regex::new: the compiled matcher keeps its source text.
Regex_new(src) ==
    LET r == Parse(src, 1, <<>>)
    IN  [ok |-> r.ok, src |-> src, prog |-> r.prog]

\* Regex::as_str
as_str(r) == r.src

\* Debug of the engine's syntax error.
ErrorDebug(src) == SyntaxOpen \o RegexParseError \o src \o UnclosedClass \o <<")">>

\* The items of prog from the k-th on match h starting at offset i.
RECURSIVE MatchFrom(_, _, _, _)
MatchFrom(prog, k, h, i) ==
    IF k > Len(prog) THEN TRUE
    ELSE IF prog[k].t = "start" THEN i = 0 /\ MatchFrom(prog, k + 1, h, i)
    ELSE IF prog[k].t = "end" THEN i = Len(h) /\ MatchFrom(prog, k + 1, h, i)
    ELSE i < Len(h) /\ h[i + 1] \in prog[k].s /\ MatchFrom(prog, k + 1, h, i + 1)

\* Mutant of is_match: a match anchored at the start of the haystack.
is_match_at_start(r, h) == MatchFrom(r.prog, 1, h, 0)

\* Regex::is_match: a search, from any offset of the haystack.
is_match(r, h) == \E i \in 0..Len(h) : MatchFrom(r.prog, 1, h, i)

\* ----------------------------------------------------------- formatting
\* '{:?}' of a str: quoted, with quotes and backslashes escaped.
RECURSIVE EscapeDebug(_)
EscapeDebug(s) ==
    IF s = <<>> THEN <<>>
    ELSE (IF Head(s) = "\"" THEN <<"\\", "\"">>
          ELSE IF Head(s) = "\\" THEN <<"\\", "\\">>
          ELSE <<Head(s)>>) \o EscapeDebug(Tail(s))

Debug(s) == <<"\"">> \o EscapeDebug(s) \o <<"\"">>

\* The values of the argument expressions among the tokens of a message.
RECURSIVE ArgValues(_)
ArgValues(toks) ==
    IF toks = <<>> THEN <<>>
    ELSE (IF Head(toks).k = "expr" THEN <<Eval(Head(toks).v, 1)>> ELSE <<>>)
         \o ArgValues(Tail(toks))

\* Mutant of Render: the placeholders are left as they are written.
RenderVerbatim(t, i, args, a) == SubSeq(t, i, Len(t))

\* A format string rendered: each '{}' takes the next positional argument.
RECURSIVE Render(_, _, _, _)
Render(t, i, args, a) ==
    IF i > Len(t) THEN <<>>
    ELSE IF t[i] = "{" /\ i < Len(t) /\ t[i + 1] = "}" /\ a <= Len(args)
         THEN args[a] \o Render(t, i + 2, args, a + 1)
    ELSE <<t[i]>> \o Render(t, i + 1, args, a)

\* format_args!($($arg)*) of the tokens after the comma.
format_args(toks) ==
    IF toks = <<>> THEN <<>>
    ELSE Render(Head(toks).v, 1, ArgValues(Tail(toks)), 1)

\* Mutant of PanicMessage: the haystack shown by Display, not by Debug.
PanicMessageDisplay(h, r) ==
    AssertionFailed \o h \o DoesNotMatch \o as_str(r) \o Backtick

\* Mutant of PanicMessage: the payload shows the haystack expression
\* evaluated once more, not the bound value.
PanicMessageReeval(h, r) ==
    AssertionFailed \o Debug(Eval(h, 2)) \o DoesNotMatch \o as_str(r) \o Backtick

\* Mutant of PanicMessage: the message arm's format string, with no message.
PanicMessageTrailing(h, r) ==
    AssertionFailed \o Debug(h) \o DoesNotMatch \o as_str(r) \o Backtick
        \o ColonSpace

\* The payload of the first arm's panic!.
PanicMessage(h, r) ==
    AssertionFailed \o Debug(h) \o DoesNotMatch \o as_str(r) \o Backtick

\* The payload of the second arm's panic!.
PanicMessageWith(h, r, toks) ==
    AssertionFailed \o Debug(h) \o DoesNotMatch \o as_str(r) \o Backtick
        \o ColonSpace \o format_args(toks)

\* Mutant of expect: the error of Regex::new is dropped from the payload.
expect_without_error(msg, src) == msg

\* Result::expect on the Err of Regex::new.
expect(msg, src) == msg \o ColonSpace \o ErrorDebug(src)

\* ------------------------------------------------------------ the program
VARIABLES pc, call, arm, haystack, re, log, outcome, prev

vars == <<pc, call, arm, haystack, re, log, outcome, prev>>

Call(h, p, rest) == [haystack |-> h, re |-> p, rest |-> rest]
Calls == {Call(h, p, rest) : h \in Haystacks, p \in Patterns, rest \in Rests}

\* The invocations a test body makes one after the other.
SeqCalls ==
    {Call(h, p, rest) : h \in {<<"a">>, <<"\"">>},
                        p \in {<<>>, <<"a">>, <<"[">>},
                        rest \in {<<>>, <<Comma>>, <<Comma, Str(XXX)>>}}

\* Mutant of Block: the pattern is compiled before the haystack is bound.
BlockSwapped == <<"compile", "bind_haystack", "is_match">>

\* The statements of the expansion's block before its panic!, in order.
Block == <<"bind_haystack", "compile", "is_match">>

\* The statement that follows statement p of the block.
After(p) == Block[(CHOOSE k \in 1..Len(Block) : Block[k] = p) + 1]

NoOutcome == [kind |-> "none", payload |-> <<>>]
Returned == [kind |-> "returned", payload |-> <<>>]
Panicked(kind, payload) == [kind |-> kind, payload |-> payload]

Init ==
    /\ pc = "idle"
    /\ call = Call(<<>>, <<>>, <<>>)
    /\ arm = 1
    /\ haystack = <<>>
    /\ re = <<>>
    /\ log = <<>>
    /\ outcome = NoOutcome
    /\ prev = <<>>

\* The macro is invoked with an invocation of the pool: the arm is chosen
\* by the shape of the invocation.
Invoke(pool) ==
    /\ pc = "idle"
    /\ \E c \in pool :
        /\ call' = c
        /\ arm' = Arm(c.rest)
    /\ log' = <<>>
    /\ outcome' = NoOutcome
    /\ pc' = Block[1]
    /\ UNCHANGED <<haystack, re, prev>>

\* let haystack = $haystack;
BindHaystack ==
    /\ pc = "bind_haystack"
    /\ haystack' = <<Eval(call.haystack, Count(log, "haystack") + 1)>>
    /\ log' = Append(log, "haystack")
    /\ pc' = After("bind_haystack")
    /\ UNCHANGED <<call, arm, re, outcome, prev>>

\* Mutant of Compile: when the pattern does not compile, the matcher an
\* earlier expansion left behind is used.
CompileFallback ==
    /\ pc = "compile"
    /\ LET src == Eval(call.re, Count(log, "re") + 1)
           r == Regex_new(src)
       IN  /\ log' = Append(log, "re")
           /\ IF r.ok
              THEN /\ re' = <<r>>
                   /\ pc' = After("compile")
                   /\ UNCHANGED outcome
              ELSE IF re # <<>>
              THEN /\ pc' = After("compile")
                   /\ UNCHANGED <<re, outcome>>
              ELSE /\ outcome' = Panicked("panic_expect", expect(AValidRegex, src))
                   /\ pc' = "done"
                   /\ UNCHANGED re
    /\ UNCHANGED <<call, arm, haystack, prev>>

\* Mutant of Compile: the message is formatted ahead of the match test.
CompileEager ==
    /\ pc = "compile"
    /\ LET src == Eval(call.re, Count(log, "re") + 1)
           r == Regex_new(src)
       IN  /\ log' = log \o <<"re">> \o (IF arm = 2 THEN <<"args">> ELSE <<>>)
           /\ IF r.ok
              THEN /\ re' = <<r>>
                   /\ pc' = After("compile")
                   /\ UNCHANGED outcome
              ELSE /\ outcome' = Panicked("panic_expect", expect(AValidRegex, src))
                   /\ pc' = "done"
                   /\ UNCHANGED re
    /\ UNCHANGED <<call, arm, haystack, prev>>

\* let re = Regex::new(&$re).expect("a valid regex");
Compile ==
    /\ pc = "compile"
    /\ LET src == Eval(call.re, Count(log, "re") + 1)
           r == Regex_new(src)
       IN  /\ log' = Append(log, "re")
           /\ IF r.ok
              THEN /\ re' = <<r>>
                   /\ pc' = After("compile")
                   /\ UNCHANGED outcome
              ELSE /\ outcome' = Panicked("panic_expect", expect(AValidRegex, src))
                   /\ pc' = "done"
                   /\ UNCHANGED re
    /\ UNCHANGED <<call, arm, haystack, prev>>

\* if !re.is_match(&haystack) { .. }
IsMatch ==
    /\ pc = "is_match"
    /\ log' = Append(log, "is_match")
    /\ IF ~is_match(re[1], haystack[1])
       THEN /\ pc' = "panic"
            /\ UNCHANGED outcome
       ELSE /\ pc' = "done"
            /\ outcome' = Returned
    /\ UNCHANGED <<call, arm, haystack, re, prev>>

\* ::std::panic!(..) of the arm the invocation expanded by.
Panic ==
    /\ pc = "panic"
    /\ \/ /\ arm = 1
          /\ outcome' = Panicked("panic_assert", PanicMessage(haystack[1], re[1]))
          /\ UNCHANGED log
       \/ /\ arm = 2
          /\ outcome' = Panicked("panic_assert",
                                 PanicMessageWith(haystack[1], re[1], Tail(call.rest)))
          /\ log' = Append(log, "args")
    /\ pc' = "done"
    /\ UNCHANGED <<call, arm, haystack, re, prev>>

\* The test body goes on to its next invocation; 'prev' keeps one earlier
\* invocation and what came of it.
NextCall ==
    /\ pc = "done"
    /\ pc' = "idle"
    /\ \/ prev' = <<[call |-> call, outcome |-> outcome]>>
       \/ UNCHANGED prev
    /\ UNCHANGED <<call, arm, haystack, re, log, outcome>>

Next ==
    \/ Invoke(Calls)
    \/ BindHaystack
    \/ Compile
    \/ IsMatch
    \/ Panic

Spec == Init /\ [][Next]_vars

NextSeq ==
    \/ Invoke(SeqCalls)
    \/ BindHaystack
    \/ Compile
    \/ IsMatch
    \/ Panic
    \/ NextCall

SpecSeq == Init /\ [][NextSeq]_vars

\* ============================================================== the claims
\* The haystack and the pattern of the invocation under way, as values.
H == call.haystack
P == call.re

Finished == pc = "done"
Compiles(p) == Regex_new(p).ok
MessageSupplied == Len(call.rest) >= 2

HasPrefix(s, t) == Len(t) <= Len(s) /\ SubSeq(s, 1, Len(t)) = t
Contains(s, t) ==
    \E i \in 0..Len(s) : i + Len(t) <= Len(s) /\ SubSeq(s, i + 1, i + Len(t)) = t

\* The number of characters the items of prog before the k-th consume.
Offset(prog, k) == Cardinality({m \in 1..(k - 1) : prog[m].t = "set"})

\* The region of h that starts at offset i satisfies prog.
Spans(prog, h, i) ==
    /\ i + Offset(prog, Len(prog) + 1) <= Len(h)
    /\ \A k \in 1..Len(prog) :
        LET at == i + Offset(prog, k)
        IN  IF prog[k].t = "start" THEN at = 0
            ELSE IF prog[k].t = "end" THEN at = Len(h)
            ELSE h[at + 1] \in prog[k].s

\* Some contiguous region of h satisfies the pattern p.
SubstringSatisfies(p, h) ==
    \E i \in 0..Len(h) : Spans(Regex_new(p).prog, h, i)

\* The whole of h satisfies the pattern p.
WholeSatisfies(p, h) ==
    LET prog == Regex_new(p).prog
    IN  Spans(prog, h, 0) /\ Offset(prog, Len(prog) + 1) = Len(h)

\* The texts the spec and the tests write out.
SpecAssertionFailed == <<"a", "s", "s", "e", "r", "t", "i", "o", "n", " ", "f", "a", "i", "l", "e", "d", ":", " ">>
SpecDoesNotMatch == <<" ", "d", "o", "e", "s", " ", "n", "o", "t", " ", "m", "a", "t", "c", "h", " ">>
ParseErrorMarker == <<"r", "e", "g", "e", "x", " ", "p", "a", "r", "s", "e", " ", "e", "r", "r", "o", "r">>
ValueXXX == <<"v", "a", "l", "u", "e", "=", "X", "X", "X">>

\* The message each supplied template and arguments must render to.
Rendered(rest) ==
    IF rest = <<Comma, Str(XXX)>> THEN XXX
    ELSE IF rest = <<Comma, Str(ValueFmt), Comma, Expr(XXX)>> THEN ValueXXX
    ELSE <<>>

Quoted == AssertionFailed \o Debug(H) \o DoesNotMatch \o P \o Backtick
Unquoted == SpecAssertionFailed \o Debug(H) \o SpecDoesNotMatch \o P

\* C1: whenever the pattern compiles and some contiguous region of the
\* haystack satisfies it, the assertion (with or without a message) never
\* enters its panic and finishes by returning normally.
C1_MatchReturns ==
    (pc \in {"panic", "done"} /\ Compiles(P) /\ SubstringSatisfies(P, H))
        => (pc = "done" /\ outcome = Returned)

\* C1 witness: a call with a message returned although only a part of the
\* haystack, not the whole of it, satisfies the pattern.
C1_Witness ==
    /\ Finished /\ outcome = Returned /\ MessageSupplied
    /\ SubstringSatisfies(P, H) /\ ~WholeSatisfies(P, H)
    /\ Len(P) > 0

\* C2 as stated: on a mismatch the two-argument assertion fails with exactly
\* 'assertion failed: ', Debug of the haystack, ' does not match ' and the
\* pattern's source, nothing else added.
C2_Stated ==
    (Finished /\ call.rest = <<>> /\ Compiles(P) /\ ~SubstringSatisfies(P, H))
        => outcome = Panicked("panic_assert", Unquoted)

\* C2 as amended: on a mismatch the two-argument assertion fails with exactly
\* 'assertion failed: ', a backtick, Debug of the haystack, a backtick,
\* ' does not match ', a backtick, the pattern's source and a backtick.
C2_Amended ==
    (Finished /\ call.rest = <<>> /\ Compiles(P) /\ ~SubstringSatisfies(P, H))
        => outcome = Panicked("panic_assert", Quoted)

\* C2 witness: a two-argument call failed on a haystack that holds a quote,
\* which Debug escapes.
C2_Witness ==
    /\ Finished /\ call.rest = <<>> /\ outcome.kind = "panic_assert"
    /\ \E i \in 1..Len(H) : H[i] = "\""

\* C3 as stated: on a mismatch with a message, the payload is the base
\* diagnostic without backticks, then ': ' and the rendered message.
C3_Stated ==
    (Finished /\ MessageSupplied /\ Compiles(P) /\ ~SubstringSatisfies(P, H))
        => outcome = Panicked("panic_assert",
                              Unquoted \o ColonSpace \o Rendered(call.rest))

\* C3 as amended: on a mismatch with a message, the payload is the base
\* diagnostic, its haystack and its pattern each between backticks, then
\* ': ' and the template rendered with its arguments.
C3_Amended ==
    (Finished /\ MessageSupplied /\ Compiles(P) /\ ~SubstringSatisfies(P, H))
        => outcome = Panicked("panic_assert",
                              Quoted \o ColonSpace \o Rendered(call.rest))

\* C3 witness: a call with a template and an argument failed on a mismatch.
C3_Witness ==
    /\ Finished /\ outcome.kind = "panic_assert"
    /\ call.rest = <<Comma, Str(ValueFmt), Comma, Expr(XXX)>>
    /\ HasPrefix(outcome.payload, AssertionFailed)

\* C4: the payload of a mismatch is the backticked diagnostic, followed by
\* ': ' and the formatted message exactly when a message was supplied.
C4_Payload ==
    (Finished /\ outcome.kind = "panic_assert")
        => outcome.payload =
              Quoted \o (IF MessageSupplied
                         THEN ColonSpace \o Rendered(call.rest)
                         ELSE <<>>)

\* C4 witness: a mismatch with no message, whose payload ends with the
\* backtick after the pattern, and the haystack is not empty.
C4_Witness ==
    /\ Finished /\ outcome.kind = "panic_assert" /\ ~MessageSupplied
    /\ Len(H) > 0 /\ Len(P) > 0
    /\ outcome.payload[Len(outcome.payload)] = Grave

C6_TrailingComma ==
    /\ (pc # "idle" /\ call.rest = <<Comma>>) => arm = 1
    /\ (Finished /\ prev # <<>> /\ prev[1].call.haystack = H /\ prev[1].call.re = P
          /\ {prev[1].call.rest, call.rest} = {<<>>, <<Comma>>})
        => outcome = prev[1].outcome

\* C6 witness: the trailing-comma form failed on a mismatch after the plain
\* form of the same call.
C6_Witness ==
    /\ Finished /\ prev # <<>> /\ prev[1].call.haystack = H /\ prev[1].call.re = P
    /\ prev[1].call.rest = <<>> /\ call.rest = <<Comma>>
    /\ outcome.kind = "panic_assert"

\* C7: a call with the arguments of an earlier call ends as that call
\* ended, whatever calls were made in between.
C7_Idempotent ==
    (Finished /\ prev # <<>> /\ prev[1].call = call) => outcome = prev[1].outcome

\* C7 witness: a call that does not compile was repeated after a call that
\* left a matcher behind.
C7_Witness ==
    /\ Finished /\ prev # <<>> /\ prev[1].call = call
    /\ outcome.kind = "panic_expect" /\ re # <<>>

\* C8: the message arguments are evaluated only after the match test found
\* no match; a call that returns or fails on its pattern never evaluates
\* them.
C8_LazyMessage ==
    /\ \A i \in 1..Len(log) : log[i] = "args" =>
          /\ \E j \in 1..(i - 1) : log[j] = "is_match"
          /\ ~SubstringSatisfies(P, H)
          /\ outcome.kind = "panic_assert"
    /\ (Finished /\ outcome.kind \in {"returned", "panic_expect"})
          => Count(log, "args") = 0

\* C8 witness: a call with a message returned without evaluating it.
C8_Witness ==
    /\ Finished /\ outcome = Returned /\ MessageSupplied
    /\ Count(log, "args") = 0

\* C9 as stated: the pattern is compiled before the haystack is evaluated,
\* and a call that fails on its pattern has not evaluated the haystack.
C9_Stated ==
    /\ \A i \in 1..Len(log) : log[i] = "haystack" =>
          \E j \in 1..(i - 1) : log[j] = "re"
    /\ outcome.kind = "panic_expect" => Count(log, "haystack") = 0

\* C9 as amended: the haystack expression is evaluated first, then the
\* pattern is compiled, and only then is the haystack matched; a call that
\* fails on its pattern has evaluated the haystack and never matched it.
C9_Amended ==
    /\ \A i \in 1..Len(log) : log[i] = "re" =>
          \E j \in 1..(i - 1) : log[j] = "haystack"
    /\ \A i \in 1..Len(log) : log[i] = "is_match" =>
          \E j \in 1..(i - 1) : log[j] = "re"
    /\ outcome.kind = "panic_expect" => log = <<"haystack", "re">>

\* C9 witness: a call failed on its pattern.
C9_Witness ==
    /\ Finished /\ outcome.kind = "panic_expect" /\ log = <<"haystack", "re">>
    /\ haystack # <<>>

\* C10: a finished call evaluated its haystack expression once and its
\* pattern expression once, on every path, and a mismatch payload shows the
\* value bound to the haystack and the source of the compiled matcher.
C10_EvaluatedOnce ==
    Finished =>
        /\ Count(log, "haystack") = 1
        /\ Count(log, "re") = 1
        /\ haystack = <<H>>
        /\ outcome.kind # "panic_expect" => re # <<>> /\ as_str(re[1]) = P
        /\ outcome.kind = "panic_assert" =>
              HasPrefix(outcome.payload,
                        AssertionFailed \o Debug(haystack[1]) \o DoesNotMatch
                            \o as_str(re[1]) \o Backtick)

\* C10 witness: a mismatch with a message, after one evaluation of each.
C10_Witness ==
    /\ Finished /\ outcome.kind = "panic_assert" /\ MessageSupplied
    /\ Count(log, "haystack") = 1 /\ Count(log, "re") = 1
    /\ Len(H) > 0

====
